---- MODULE Spec2Model ----
(***************************************************************************)
(* A model of galogen's registry resolution engine (src/galogen.cpp):      *)
(* ApiEntity<T> (add/get/markProcessed), ApiVersion (parsing and           *)
(* comparison), processOperations and generate().                          *)
(*                                                                         *)
(* Strings that the code only compares for equality (entity names, api     *)
(* names, profiles) are TLA+ strings.  Version strings, which the code     *)
(* parses, are sequences of one-character strings.  A pointer into an      *)
(* ApiEntity's vector is the 1-based index of the element; nullptr is 0.   *)
(* A missing XML attribute (Attribute() returning nullptr) is NoAttr.      *)
(***************************************************************************)
EXTENDS Integers, Sequences, FiniteSets, TLC

\* ------------------------------------------------------------------------
\* Bounds of the model.
\* ------------------------------------------------------------------------
\* Longest ApiEntity variant vector explored by SpecEntity.
MaxVariants == 4
\* Most <feature> elements in a generated registry document.
MaxFeatures == 2
\* Most <extension> elements in a generated registry document.
MaxExtensions == 2
\* Deepest output_type recursion that is followed.
MaxDepth == 5

nullptr == 0
NoAttr == "<no attribute>"

\* ------------------------------------------------------------------------
\* ApiEntity<T>
\* ------------------------------------------------------------------------
VARIABLES
  set_,         \* ApiEntity::set_ of the entity under test (SpecEntity)
  get_api,      \* argument of the last get() call on it, NoAttr before any
  get_result    \* what that call returned: an index into set_, or nullptr

entityVars == <<set_, get_api, get_result>>

\* ApiEntity::add
add(set, e) == Append(set, e)

\* The loop of ApiEntity::get, from element i on, with the running result.
RECURSIVE getLoop(_, _, _, _)
getLoop(set, api, i, result) ==
  IF i > Len(set) THEN result
  ELSE IF (set[i].api = "" /\ result = nullptr)
          \/ (set[i].api # "" /\ set[i].api = api)
       THEN getLoop(set, api, i + 1, i)
       ELSE getLoop(set, api, i + 1, result)

\* A get() whose specific-api test also accepts a default variant that comes
\* later (a plausible slip: dropping the result == nullptr test).
getLastMatch(set, api) ==
  LET m == {i \in 1..Len(set) : set[i].api = "" \/ set[i].api = api}
  IN IF m = {} THEN nullptr ELSE CHOOSE i \in m : \A j \in m : j <= i

\* A get() that keeps the first specific variant instead of the last.
getFirstSpecific(set, api) ==
  LET s == {i \in 1..Len(set) : set[i].api = api}
      d == {i \in 1..Len(set) : set[i].api = ""}
  IN IF s # {} THEN CHOOSE i \in s : \A j \in s : i <= j
     ELSE IF d # {} THEN CHOOSE i \in d : \A j \in d : i <= j
     ELSE nullptr

\* ApiEntity::get
get(set, api) == getLoop(set, api, 1, nullptr)

\* The api names main() accepts for --api that the model uses.
ApiNames == {"gl", "gles2"}
\* The api tags a variant may carry: none (default) or an api name.
ApiTags == {""} \cup ApiNames

InitEntityVars ==
  /\ set_ = <<>>
  /\ get_api = NoAttr
  /\ get_result = nullptr

\* entity.add(e): one more variant, tagged `tag`.
Add ==
  /\ Len(set_) < MaxVariants
  /\ \E tag \in ApiTags : set_' = add(set_, [api |-> tag])
  /\ get_api' = NoAttr
  /\ get_result' = nullptr

\* entity.get(api)
Get ==
  /\ \E api \in ApiNames :
       /\ get_api' = api
       /\ get_result' = get(set_, api)
  /\ UNCHANGED set_

\* ------------------------------------------------------------------------
\* ApiVersion
\* ------------------------------------------------------------------------
Digits == {"0", "1", "2", "3", "4", "5", "6", "7", "8", "9"}

DigitValue(c) ==
  CASE c = "0" -> 0 [] c = "1" -> 1 [] c = "2" -> 2 [] c = "3" -> 3
    [] c = "4" -> 4 [] c = "5" -> 5 [] c = "6" -> 6 [] c = "7" -> 7
    [] c = "8" -> 8 [] c = "9" -> 9

\* [0-9]+
IsDigits(s) == Len(s) > 0 /\ \A i \in 1..Len(s) : s[i] \in Digits

\* atoi on a string of digits.
RECURSIVE atoi(_)
atoi(s) ==
  IF s = <<>> THEN 0
  ELSE 10 * atoi(SubSeq(s, 1, Len(s) - 1)) + DigitValue(s[Len(s)])

\* A default-constructed ApiVersion.
DefaultApiVersion == [ver_maj_ |-> 0, ver_min_ |-> 0, valid_ |-> FALSE]

\* A parse that reads the digits as a decimal fraction's text, that is,
\* compares "1.10" below "1.9" (a plausible slip: comparing the strings).
ApiVersionFirstDigit(version_string) ==
  IF \E p \in 1..Len(version_string) :
       /\ version_string[p] = "."
       /\ IsDigits(SubSeq(version_string, 1, p - 1))
       /\ IsDigits(SubSeq(version_string, p + 1, Len(version_string)))
  THEN LET p == CHOOSE q \in 1..Len(version_string) : version_string[q] = "."
       IN [ver_maj_ |-> DigitValue(version_string[1]),
           ver_min_ |-> DigitValue(version_string[p + 1]),
           valid_ |-> TRUE]
  ELSE DefaultApiVersion

\* ApiVersion::ApiVersion(const char*): ^([0-9]+)\.([0-9]+)$
ApiVersion(version_string) ==
  IF \E p \in 1..Len(version_string) :
       /\ version_string[p] = "."
       /\ IsDigits(SubSeq(version_string, 1, p - 1))
       /\ IsDigits(SubSeq(version_string, p + 1, Len(version_string)))
  THEN LET p == CHOOSE q \in 1..Len(version_string) : version_string[q] = "."
       IN [ver_maj_ |-> atoi(SubSeq(version_string, 1, p - 1)),
           ver_min_ |-> atoi(SubSeq(version_string, p + 1, Len(version_string))),
           valid_ |-> TRUE]
  ELSE DefaultApiVersion

\* A comparison that leaves the boundary out (a plausible slip: < for <=).
VersionLess(a, b) ==
  IF a.ver_maj_ < b.ver_maj_ THEN TRUE
  ELSE IF a.ver_maj_ = b.ver_maj_ THEN a.ver_min_ < b.ver_min_
  ELSE FALSE

\* ApiVersion::operator<=
VersionLE(a, b) ==
  IF a.ver_maj_ < b.ver_maj_ THEN TRUE
  ELSE IF a.ver_maj_ = b.ver_maj_ THEN a.ver_min_ <= b.ver_min_
  ELSE FALSE

\* ApiVersion::operator>
VersionGT(a, b) == ~VersionLE(a, b)

\* ------------------------------------------------------------------------
\* The registry document and the generation options
\* ------------------------------------------------------------------------
VARIABLES
  root,                 \* the parsed registry document (never modified)
  options,              \* GenerationOptions; generate() erases from extensions
  type_map,             \* EntityMap<TypeInfo>: name -> vector of variants
  enum_map,             \* EntityMap<EnumerantInfo>
  command_map,          \* EntityMap<CommandInfo>
  group_map,            \* EntityMap<GroupInfo>
  processed,            \* the type names whose ApiEntity has processed_ set
  feature_elements,     \* the <feature> elements kept, as indices into root.features
  api_version_numbers,  \* the ApiVersion parsed for each kept element
  user_data,            \* feature index -> its SetUserData() value (0-based)
  entity_sets,          \* entity type -> set of selected names
  pc,                   \* where generate() is
  it,                   \* the loop positions of generate()
  cur,                  \* the processOperations call in progress
  stack,                \* the output_type activations, innermost last
  todo,                 \* what the current unordered_set iteration has left
  sink,                 \* the calls made on options.generator, in order
  status,               \* "running", "exit0", "exit1" (FAIL), "abort" (uncaught
                        \* exception) or "segv" (call stack exhausted)
  stderr_,              \* what was written to stderr, in order
  applied,              \* history: the op lists handed to processOperations
  last_ref              \* history: the entity reference applied by the last step

pipelineVars ==
  <<root, options, type_map, enum_map, command_map, group_map, processed,
    feature_elements, api_version_numbers, user_data, entity_sets, pc, it,
    cur, stack, todo, sink, status, stderr_, applied, last_ref>>

vars == <<entityVars, pipelineVars>>

\* All sequences over S of length at most n.
SeqsUpTo(S, n) == UNION {[1..k -> S] : k \in 0..n}

\* The set of elements of a sequence.
Range(s) == {s[i] : i \in 1..Len(s)}

\* <type name= api= requires=>
TypeElem(name, api, requires) ==
  [name |-> name, api |-> api, requires |-> requires]
\* <enum name= api=>
EnumElem(name, api) == [name |-> name, api |-> api]
\* <param group=><ptype>..</ptype></param>
Param(referenced_api_type, group) ==
  [referenced_api_type |-> referenced_api_type, group |-> group]
\* <command><proto><ptype>..</ptype><name>..</name></proto><param>..</command>
\* CommandInfo::api is never set by populateEntity, so it stays empty.
CommandElem(name, referenced_api_type, parameters) ==
  [name |-> name, api |-> "", referenced_api_type |-> referenced_api_type,
   parameters |-> parameters]
\* <group name=><enum name=/>..</group>
GroupElem(name, enums) == [name |-> name, enums |-> enums]
\* <type name=/>, <enum name=/> or <command name=/> inside require/remove
Ref(entity_type, name) == [entity_type |-> entity_type, name |-> name]
\* <require profile=>..</require> or <remove profile=>..</remove>
Op(tag, profile, refs) == [tag |-> tag, profile |-> profile, refs |-> refs]
\* <feature api= number=>
Feature(api, number, ops) == [api |-> api, number |-> number, ops |-> ops]
\* <extension name= supported=>; supported is the attribute's regular
\* expression, an alternation a|b|c, as the sequence of its alternatives
\* (the empty sequence is the empty attribute).
Extension(name, supported, ops) ==
  [name |-> name, supported |-> supported, ops |-> ops]

\* The four types generate() force-outputs first, in that order.
BootstrapTypes == <<"GLenum", "GLuint", "GLsizei", "GLchar">>

\* ------------------------------------------------------------------------
\* Loading (loadEntities, populateEntity)
\* ------------------------------------------------------------------------
\* The ApiEntity a map holds for a name; std::unordered_map::operator[]
\* yields a fresh, empty one for a name that is not there.
EntityOf(map, name) == IF name \in DOMAIN map THEN map[name] ELSE <<>>

\* map[entity_info.name].add(entity_info)
MapAdd(map, e) ==
  IF e.name \in DOMAIN map
  THEN [map EXCEPT ![e.name] = add(@, e)]
  ELSE map @@ (e.name :> add(<<>>, e))

\* loadEntities: every element of the container, in document order.
RECURSIVE loadEntities(_, _)
loadEntities(container, map) ==
  IF container = <<>> THEN map
  ELSE loadEntities(Tail(container), MapAdd(map, Head(container)))

EmptyMap == [n \in {} |-> <<>>]

\* A populateEntity(GroupInfo*) with only its first FAIL_IF: the references
\* without an entry in the enumerant map.
BadGroupRefsUndefinedOnly(group, emap, api_name) ==
  {i \in 1..Len(group.enums) : group.enums[i] \notin DOMAIN emap}

\* populateEntity(GroupInfo*): the enum references of a <group> that fail
\* one of its two FAIL_IFs (no entry in the map, or no variant for the api).
BadGroupRefs(group, emap, api_name) ==
  {i \in 1..Len(group.enums) :
     \/ group.enums[i] \notin DOMAIN emap
     \/ get(emap[group.enums[i]], api_name) = nullptr}

\* populateEntity(GroupInfo*) for a group all of whose references resolve:
\* each reference becomes a pointer to the enumerant's variant for the api.
GroupInfoOf(group, emap, api_name) ==
  [name |-> group.name, api |-> "",
   enums |-> [i \in 1..Len(group.enums) |->
                <<group.enums[i], get(emap[group.enums[i]], api_name)>>]]

\* The first <group> element, in document order, with a bad reference; 0 if none.
FirstBadGroup(groups, emap, api_name) ==
  LET bad == {g \in 1..Len(groups) : BadGroupRefs(groups[g], emap, api_name) # {}}
  IN IF bad = {} THEN 0 ELSE CHOOSE g \in bad : \A h \in bad : g <= h

\* ------------------------------------------------------------------------
\* processOperations
\* ------------------------------------------------------------------------
EntityTypes == {"type", "enum", "group", "command"}
EmptySets == [t \in EntityTypes |-> {}]

\* The profile test at the head of the operation loop: TRUE for `continue`.
ProfileSkips(op, profile) == op.profile # NoAttr /\ op.profile # profile

\* The types and groups a required command brings in.
InferredTypes(command) ==
  (IF command.referenced_api_type # "" THEN {command.referenced_api_type} ELSE {})
  \cup {command.parameters[i].referenced_api_type :
          i \in {j \in 1..Len(command.parameters) :
                   command.parameters[j].referenced_api_type # ""}}

InferredGroups(command) ==
  {command.parameters[i].group :
     i \in {j \in 1..Len(command.parameters) : command.parameters[j].group # ""}}

\* A body of the entity_ref loop that forgets the inference for commands.
ApplyRefNoInference(sets, require, ref, cmap, api_name) ==
  IF ref.name = "" THEN [status |-> "exit1", sets |-> sets]
  ELSE IF require
  THEN [status |-> "running",
        sets |-> [sets EXCEPT ![ref.entity_type] = @ \cup {ref.name}]]
  ELSE [status |-> "running",
        sets |-> [sets EXCEPT ![ref.entity_type] = @ \ {ref.name}]]

\* A body of the entity_ref loop with the require test inverted (a plausible
\* slip: strcmp(...) != 0 for == 0), the command inference left out.
ApplyRefInverted(sets, require, ref, cmap, api_name) ==
  IF ref.name = "" THEN [status |-> "exit1", sets |-> sets]
  ELSE IF ~require
  THEN [status |-> "running",
        sets |-> [sets EXCEPT ![ref.entity_type] = @ \cup {ref.name}]]
  ELSE [status |-> "running",
        sets |-> [sets EXCEPT ![ref.entity_type] = @ \ {ref.name}]]

\* A body of the entity_ref loop whose remove of a command also erases the
\* types and groups the command's signature names.
ApplyRefRemoveTransitive(sets, require, ref, cmap, api_name) ==
  IF ref.name = "" THEN [status |-> "exit1", sets |-> sets]
  ELSE IF require
  THEN LET inserted == [sets EXCEPT ![ref.entity_type] = @ \cup {ref.name}]
       IN IF ref.entity_type # "command"
          THEN [status |-> "running", sets |-> inserted]
          ELSE IF ref.name \notin DOMAIN cmap
          THEN [status |-> "abort", sets |-> inserted]
          ELSE IF get(cmap[ref.name], api_name) = nullptr
          THEN [status |-> "abort", sets |-> inserted]
          ELSE LET command == cmap[ref.name][get(cmap[ref.name], api_name)]
               IN [status |-> "running",
                   sets |-> [inserted EXCEPT
                               !["type"] = @ \cup InferredTypes(command),
                               !["group"] = @ \cup InferredGroups(command)]]
  ELSE LET erased == [sets EXCEPT ![ref.entity_type] = @ \ {ref.name}]
       IN IF ref.entity_type = "command" /\ ref.name \in DOMAIN cmap
             /\ get(cmap[ref.name], api_name) # nullptr
          THEN LET command == cmap[ref.name][get(cmap[ref.name], api_name)]
               IN [status |-> "running",
                   sets |-> [erased EXCEPT
                               !["type"] = @ \ InferredTypes(command),
                               !["group"] = @ \ InferredGroups(command)]]
          ELSE [status |-> "running", sets |-> erased]

\* A body of the entity_ref loop that treats remove as require.
ApplyRefNoRemove(sets, require, ref, cmap, api_name) ==
  IF ref.name = "" THEN [status |-> "exit1", sets |-> sets]
  ELSE [status |-> "running",
        sets |-> [sets EXCEPT ![ref.entity_type] = @ \cup {ref.name}]]

\* The body of the entity_ref loop for one reference: the selection after
\* it, and how the process stands ("exit1": the FAIL_IF on an empty name;
\* "abort": command_map.at() throws std::out_of_range, which nothing
\* catches, or the command has no variant and a null pointer is read).
ApplyRef(sets, require, ref, cmap, api_name) ==
  IF ref.name = "" THEN [status |-> "exit1", sets |-> sets]
  ELSE IF require
  THEN LET inserted == [sets EXCEPT ![ref.entity_type] = @ \cup {ref.name}]
       IN IF ref.entity_type # "command"
          THEN [status |-> "running", sets |-> inserted]
          ELSE IF ref.name \notin DOMAIN cmap
          THEN [status |-> "abort", sets |-> inserted]
          ELSE IF get(cmap[ref.name], api_name) = nullptr
          THEN [status |-> "abort", sets |-> inserted]
          ELSE LET command == cmap[ref.name][get(cmap[ref.name], api_name)]
               IN [status |-> "running",
                   sets |-> [inserted EXCEPT
                               !["type"] = @ \cup InferredTypes(command),
                               !["group"] = @ \cup InferredGroups(command)]]
  ELSE [status |-> "running",
        sets |-> [sets EXCEPT ![ref.entity_type] = @ \ {ref.name}]]

\* A position search that ignores the profile attribute.
RECURSIVE NextRefAnyProfile(_, _, _, _)
NextRefAnyProfile(ops, oi, ri, profile) ==
  IF oi > Len(ops) THEN [oi |-> oi, ri |-> 1]
  ELSE IF ri > Len(ops[oi].refs)
  THEN NextRefAnyProfile(ops, oi + 1, 1, profile)
  ELSE [oi |-> oi, ri |-> ri]

\* The two loops of processOperations, from operation oi and reference ri
\* on: the position of the next reference whose body runs (operations of
\* another profile are skipped), or oi = Len(ops) + 1 when the loops end.
RECURSIVE NextRef(_, _, _, _)
NextRef(ops, oi, ri, profile) ==
  IF oi > Len(ops) THEN [oi |-> oi, ri |-> 1]
  ELSE IF ProfileSkips(ops[oi], profile) \/ ri > Len(ops[oi].refs)
  THEN NextRef(ops, oi + 1, 1, profile)
  ELSE [oi |-> oi, ri |-> ri]

\* processOperations run to its end from a position: the final selection
\* and status.
RECURSIVE processOperationsFrom(_, _, _, _, _, _)
processOperationsFrom(ops, pos, profile, cmap, api_name, sets) ==
  IF pos.oi > Len(ops) THEN [status |-> "running", sets |-> sets]
  ELSE LET op == ops[pos.oi]
           r == ApplyRef(sets, op.tag = "require", op.refs[pos.ri], cmap, api_name)
       IN IF r.status # "running" THEN r
          ELSE processOperationsFrom(ops, NextRef(ops, pos.oi, pos.ri + 1, profile),
                                     profile, cmap, api_name, r.sets)

\* processOperations(op_list, options, command_map, entity_sets)
processOperations(ops, profile, cmap, api_name, sets) ==
  processOperationsFrom(ops, NextRef(ops, 1, 1, profile), profile, cmap,
                        api_name, sets)

\* ------------------------------------------------------------------------
\* generate(): loading, version replay
\* ------------------------------------------------------------------------
\* The process ends where it is: exit(1) after FAIL's message ("exit1"), or
\* abnormal termination ("abort", "segv").  pc keeps the place where it ended.
Stop(how, message) ==
  /\ status' = how
  /\ pc' = pc
  /\ stderr_' = IF message = <<>> THEN stderr_ ELSE Append(stderr_, message)

\* The four loadEntities calls at the head of generate().
LoadEntities ==
  /\ pc = "load"
  /\ status = "running"
  /\ LET bad == FirstBadGroup(root.groups, loadEntities(root.enums, EmptyMap),
                              options.api_name)
         loaded == IF bad = 0 THEN root.groups ELSE SubSeq(root.groups, 1, bad - 1)
     IN /\ type_map' = loadEntities(root.types, EmptyMap)
        /\ command_map' = loadEntities(root.commands, EmptyMap)
        /\ enum_map' = loadEntities(root.enums, EmptyMap)
        /\ group_map' =
             loadEntities([g \in 1..Len(loaded) |->
                             GroupInfoOf(loaded[g], enum_map', options.api_name)],
                          EmptyMap)
        /\ IF bad = 0
           THEN /\ pc' = "collect"
                /\ UNCHANGED <<status, stderr_>>
           ELSE LET g == root.groups[bad]
                    i == CHOOSE j \in BadGroupRefs(g, enum_map', options.api_name) :
                           \A k \in BadGroupRefs(g, enum_map', options.api_name) : j <= k
                IN Stop("exit1",
                        <<"FATAL ERROR",
                          IF g.enums[i] \in DOMAIN enum_map'
                          THEN "Failed to find enum" ELSE "Reference to undefined enum",
                          {g.enums[i]}>>)
  /\ UNCHANGED <<entityVars, root, options, processed, feature_elements,
                 api_version_numbers, user_data, entity_sets, it, cur, stack,
                 todo, sink, applied, last_ref>>

\* The indices of the <feature> elements tagged for the api, in document order.
RECURSIVE FeaturesFor(_, _, _)
FeaturesFor(features, api_name, i) ==
  IF i > Len(features) THEN <<>>
  ELSE IF features[i].api = api_name
  THEN <<i>> \o FeaturesFor(features, api_name, i + 1)
  ELSE FeaturesFor(features, api_name, i + 1)

\* The loop that collects the <feature> elements of the requested api.
CollectFeatures ==
  /\ pc = "collect"
  /\ status = "running"
  /\ LET missing == {i \in 1..Len(root.features) : root.features[i].api = NoAttr}
         kept == FeaturesFor(root.features, options.api_name, 1)
     IN IF missing # {}
        THEN /\ Stop("exit1", <<"FATAL ERROR", "Feature tag missing api attribute", {}>>)
             /\ UNCHANGED <<feature_elements, api_version_numbers, user_data>>
        ELSE /\ feature_elements' = kept
             /\ api_version_numbers' =
                  [k \in 1..Len(kept) |-> ApiVersion(root.features[kept[k]].number)]
             /\ user_data' = [f \in Range(kept) |->
                                (CHOOSE k \in 1..Len(kept) : kept[k] = f) - 1]
             /\ pc' = "sort"
             /\ UNCHANGED <<status, stderr_>>
  /\ UNCHANGED <<entityVars, root, options, type_map, enum_map, command_map,
                 group_map, processed, entity_sets, it, cur, stack, todo, sink,
                 applied, last_ref>>

\* The ApiVersion of a kept <feature> element.
VersionOf(f) == api_version_numbers[user_data[f] + 1]

\* The orders std::sort can leave the kept elements in.  Its comparator is
\* operator<= on the versions: elements with different versions end up in
\* ascending order; for elements with equal versions the comparator is not
\* a strict weak ordering and their relative order is not determined.
SortedOrders(elements) ==
  {order \in [1..Len(elements) -> Range(elements)] :
     /\ \A i, j \in 1..Len(elements) : i # j => order[i] # order[j]
     /\ \A i, j \in 1..Len(elements) :
          i < j => VersionLE(VersionOf(order[i]), VersionOf(order[j]))}

\* std::sort(feature_elements.begin(), feature_elements.end(), ...)
SortFeatures ==
  /\ pc = "sort"
  /\ status = "running"
  /\ \E order \in SortedOrders(feature_elements) : feature_elements' = order
  /\ pc' = "features"
  /\ UNCHANGED <<entityVars, root, options, type_map, enum_map, command_map,
                 group_map, processed, api_version_numbers, user_data,
                 entity_sets, it, cur, stack, todo, sink, status, stderr_,
                 applied, last_ref>>

NoRef == [tag |-> "none"]

\* The "Process API versions" loop run to its end for a target version,
\* from position i of the sorted elements: the selection and the status.
RECURSIVE ReplayVersions(_, _, _, _)
ReplayVersions(elements, i, target, sets) ==
  IF i > Len(elements) THEN [status |-> "running", sets |-> sets]
  ELSE IF VersionGT(VersionOf(elements[i]), target)
  THEN [status |-> "running", sets |-> sets]
  ELSE LET r == processOperations(root.features[elements[i]].ops, options.profile,
                                  command_map, options.api_name, sets)
       IN IF r.status # "running" THEN r
          ELSE ReplayVersions(elements, i + 1, target, r.sets)

\* One iteration of the "Process API versions" loop, up to the call of
\* processOperations; or the end of the loop (by exhaustion or by break).
FeatureLoop ==
  /\ pc = "features"
  /\ status = "running"
  /\ IF it.feature > Len(feature_elements)
     THEN /\ pc' = "extensions"
          /\ UNCHANGED <<cur, applied>>
     ELSE LET f == feature_elements[it.feature]
          IN IF VersionGT(VersionOf(f), options.api_version)
             THEN /\ pc' = "extensions"
                  /\ UNCHANGED <<cur, applied>>
             ELSE /\ cur' = [ops |-> root.features[f].ops,
                             pos |-> NextRef(root.features[f].ops, 1, 1, options.profile),
                             ret |-> "features"]
                  /\ applied' = Append(applied, [kind |-> "feature", index |-> f])
                  /\ pc' = "ops"
  /\ UNCHANGED <<entityVars, root, options, type_map, enum_map, command_map,
                 group_map, processed, feature_elements, api_version_numbers,
                 user_data, entity_sets, it, stack, todo, sink, status, stderr_,
                 last_ref>>

\* processOperations: the body of the entity_ref loop for the next reference.
ProcessOperationsRef ==
  /\ pc = "ops"
  /\ status = "running"
  /\ cur.pos.oi <= Len(cur.ops)
  /\ LET op == cur.ops[cur.pos.oi]
         ref == op.refs[cur.pos.ri]
         r == ApplyRef(entity_sets, op.tag = "require", ref, command_map,
                       options.api_name)
     IN /\ entity_sets' = r.sets
        /\ last_ref' = [tag |-> op.tag, entity_type |-> ref.entity_type,
                        name |-> ref.name]
        /\ IF r.status = "running"
           THEN /\ cur' = [cur EXCEPT !.pos = NextRef(cur.ops, cur.pos.oi,
                                                      cur.pos.ri + 1, options.profile)]
                /\ UNCHANGED <<pc, status, stderr_>>
           ELSE /\ Stop(r.status,
                        IF r.status = "exit1"
                        THEN <<"FATAL ERROR", "missing name attribute", {}>>
                        ELSE <<>>)
                /\ UNCHANGED cur
  /\ UNCHANGED <<entityVars, root, options, type_map, enum_map, command_map,
                 group_map, processed, feature_elements, api_version_numbers,
                 user_data, it, stack, todo, sink, applied>>

\* processOperations returns: to the version loop, or to the extension loop,
\* whose next statement erases the extension from the requested set.
ProcessOperationsReturn ==
  /\ pc = "ops"
  /\ status = "running"
  /\ cur.pos.oi > Len(cur.ops)
  /\ pc' = cur.ret
  /\ last_ref' = NoRef
  /\ IF cur.ret = "features"
     THEN /\ it' = [it EXCEPT !.feature = @ + 1]
          /\ UNCHANGED options
     ELSE /\ options' = [options EXCEPT
                           !.extensions = @ \ {root.extensions[it.extension].name}]
          /\ it' = [it EXCEPT !.extension = @ + 1]
  /\ UNCHANGED <<entityVars, root, type_map, enum_map, command_map, group_map,
                 processed, feature_elements, api_version_numbers, user_data,
                 entity_sets, cur, stack, todo, sink, status, stderr_, applied>>

\* ------------------------------------------------------------------------
\* generate(): extensions
\* ------------------------------------------------------------------------
\* The pairs <<a, b>> of the api names used where a occurs inside b without
\* being all of it.
ProperSubstrings == {<<"gl", "gles2">>, <<"gl", "glcore">>}

\* A match that accepts the pattern anywhere inside the api name (a
\* plausible slip: std::regex_search, or dropping the anchors' effect).
RegexSearch(supported, api_name) ==
  \E i \in 1..Len(supported) :
    supported[i] = api_name \/ <<supported[i], api_name>> \in ProperSubstrings

\* std::regex_match(options.api_name, "^" + supported_api + "$"): the whole
\* api name has to be one of the alternatives.
RegexMatch(supported, api_name) ==
  \E i \in 1..Len(supported) : supported[i] = api_name

\* One iteration of the "Process extensions" loop, up to the call of
\* processOperations.
ScanExtension ==
  /\ pc = "extensions"
  /\ status = "running"
  /\ it.extension <= Len(root.extensions)
  /\ LET extension == root.extensions[it.extension]
         extension_supported == RegexMatch(extension.supported, options.api_name)
         extension_requested == extension.name \in options.extensions
     IN IF extension.name = ""
        THEN /\ Stop("exit1", <<"FATAL ERROR", "Extension missing name attribute", {}>>)
             /\ UNCHANGED <<cur, it, applied>>
        ELSE IF extension.supported = <<>>
        THEN /\ Stop("exit1", <<"FATAL ERROR", "Extension missing supported attribute", {}>>)
             /\ UNCHANGED <<cur, it, applied>>
        ELSE IF extension_requested /\ extension_supported
        THEN /\ cur' = [ops |-> extension.ops,
                        pos |-> NextRef(extension.ops, 1, 1, options.profile),
                        ret |-> "extensions"]
             /\ applied' = Append(applied, [kind |-> "extension", index |-> it.extension])
             /\ pc' = "ops"
             /\ UNCHANGED <<it, status, stderr_>>
        ELSE /\ stderr_' = IF extension_requested
                           THEN Append(stderr_, <<"WARNING", "extension requested, but not supported by API",
                                                  {extension.name}>>)
                           ELSE stderr_
             /\ it' = [it EXCEPT !.extension = @ + 1]
             /\ UNCHANGED <<cur, pc, status, applied>>
  /\ UNCHANGED <<entityVars, root, options, type_map, enum_map, command_map,
                 group_map, processed, feature_elements, api_version_numbers,
                 user_data, entity_sets, stack, todo, sink, last_ref>>

\* A sink call.
Call(method, name) == [method |-> method, name |-> name]

\* The end of the extension loop with start() called before the check of
\* the names still requested (a plausible slip: the two statements swapped).
CheckExtensionsStartFirst ==
  /\ pc = "extensions"
  /\ status = "running"
  /\ it.extension > Len(root.extensions)
  /\ sink' = Append(sink, Call("start", options.api_name))
  /\ IF options.extensions # {}
     THEN Stop("exit1", <<"FATAL ERROR", "Invalid extensions specified", options.extensions>>)
     ELSE /\ pc' = "bootstrap"
          /\ UNCHANGED <<status, stderr_>>
  /\ UNCHANGED <<entityVars, root, options, type_map, enum_map, command_map,
                 group_map, processed, feature_elements, api_version_numbers,
                 user_data, entity_sets, it, cur, stack, todo, applied, last_ref>>

\* After the extension loop: the check of the names still requested, then
\* options.generator->start(...).
CheckExtensions ==
  /\ pc = "extensions"
  /\ status = "running"
  /\ it.extension > Len(root.extensions)
  /\ IF options.extensions # {}
     THEN /\ Stop("exit1", <<"FATAL ERROR", "Invalid extensions specified", options.extensions>>)
          /\ UNCHANGED sink
     ELSE /\ sink' = Append(sink, Call("start", options.api_name))
          /\ pc' = "bootstrap"
          /\ UNCHANGED <<status, stderr_>>
  /\ UNCHANGED <<entityVars, root, options, type_map, enum_map, command_map,
                 group_map, processed, feature_elements, api_version_numbers,
                 user_data, entity_sets, it, cur, stack, todo, applied, last_ref>>

\* ------------------------------------------------------------------------
\* generate(): emission
\* ------------------------------------------------------------------------
\* A call output_type(type_map[name]) from one of generate()'s loops.
Frame(name, phase) == [name |-> name, phase |-> phase]

\* A generate() without the forced calls: it goes straight to the loop over
\* the selected types.
BootstrapNotForced ==
  /\ pc = "bootstrap"
  /\ status = "running"
  /\ todo' = entity_sets["type"]
  /\ pc' = "types"
  /\ UNCHANGED <<entityVars, root, options, type_map, enum_map, command_map,
                 group_map, processed, feature_elements, api_version_numbers,
                 user_data, entity_sets, cur, sink, status, stderr_, applied,
                 last_ref, stack, it>>

\* The four forced output_type calls, one per step; then the start of the
\* loop over the selected types.
Bootstrap ==
  /\ pc = "bootstrap"
  /\ status = "running"
  /\ IF it.bootstrap <= Len(BootstrapTypes)
     THEN /\ stack' = <<Frame(BootstrapTypes[it.bootstrap], "enter")>>
          /\ it' = [it EXCEPT !.bootstrap = @ + 1, !.ret = "bootstrap"]
          /\ pc' = "output_type"
          /\ UNCHANGED todo
     ELSE /\ todo' = entity_sets["type"]
          /\ pc' = "types"
          /\ UNCHANGED <<stack, it>>
  /\ UNCHANGED <<entityVars, root, options, type_map, enum_map, command_map,
                 group_map, processed, feature_elements, api_version_numbers,
                 user_data, entity_sets, cur, sink, status, stderr_, applied,
                 last_ref>>

\* An output_type without the isProcessed() test.
OutputTypeStepNoFlag(frames, done, tmap, api_name) ==
  LET top == frames[Len(frames)]
      entity == EntityOf(tmap, top.name)
      info == get(entity, api_name)
      popped == SubSeq(frames, 1, Len(frames) - 1)
  IN IF top.phase = "after"
     THEN [status |-> "running", stack |-> popped,
           emit |-> <<Call("processType", top.name)>>, mark |-> {top.name}]
     ELSE IF info = nullptr
     THEN [status |-> "exit1", stack |-> frames, emit |-> <<>>, mark |-> {}]
     ELSE IF entity[info].requires # ""
     THEN [status |-> "running",
           stack |-> Append(Append(popped, Frame(top.name, "after")),
                            Frame(entity[info].requires, "enter")),
           emit |-> <<>>, mark |-> {}]
     ELSE [status |-> "running", stack |-> popped,
           emit |-> <<Call("processType", top.name)>>, mark |-> {top.name}]

\* An output_type that sets the processed flag before it recurses, which
\* stops the recursion when it comes back to a type it is working on.
OutputTypeStepMarkFirst(frames, done, tmap, api_name) ==
  LET top == frames[Len(frames)]
      entity == EntityOf(tmap, top.name)
      info == get(entity, api_name)
      popped == SubSeq(frames, 1, Len(frames) - 1)
  IN IF top.phase = "after"
     THEN [status |-> "running", stack |-> popped,
           emit |-> <<Call("processType", top.name)>>, mark |-> {}]
     ELSE IF info = nullptr
     THEN [status |-> "exit1", stack |-> frames, emit |-> <<>>, mark |-> {}]
     ELSE IF top.name \in done
     THEN [status |-> "running", stack |-> popped, emit |-> <<>>, mark |-> {}]
     ELSE IF entity[info].requires # ""
     THEN [status |-> "running",
           stack |-> Append(Append(popped, Frame(top.name, "after")),
                            Frame(entity[info].requires, "enter")),
           emit |-> <<>>, mark |-> {top.name}]
     ELSE [status |-> "running", stack |-> popped,
           emit |-> <<Call("processType", top.name)>>, mark |-> {top.name}]

\* An output_type that emits a type before the type it requires.
OutputTypeStepPreOrder(frames, done, tmap, api_name) ==
  LET top == frames[Len(frames)]
      entity == EntityOf(tmap, top.name)
      info == get(entity, api_name)
      popped == SubSeq(frames, 1, Len(frames) - 1)
  IN IF top.phase = "after"
     THEN [status |-> "running", stack |-> popped, emit |-> <<>>, mark |-> {}]
     ELSE IF info = nullptr
     THEN [status |-> "exit1", stack |-> frames, emit |-> <<>>, mark |-> {}]
     ELSE IF top.name \in done
     THEN [status |-> "running", stack |-> popped, emit |-> <<>>, mark |-> {}]
     ELSE IF entity[info].requires # ""
     THEN [status |-> "running",
           stack |-> Append(Append(popped, Frame(top.name, "after")),
                            Frame(entity[info].requires, "enter")),
           emit |-> <<Call("processType", top.name)>>, mark |-> {top.name}]
     ELSE [status |-> "running", stack |-> popped,
           emit |-> <<Call("processType", top.name)>>, mark |-> {top.name}]

\* One step of the innermost output_type activation.  In phase "enter" it
\* runs from the lambda's first statement to its recursive call or its
\* return; in phase "after" it runs from the return of the recursive call
\* to its own return.  The result: the activations left, the sink calls
\* made, the entities marked processed, and how the process stands.
OutputTypeStep(frames, done, tmap, api_name) ==
  LET top == frames[Len(frames)]
      entity == EntityOf(tmap, top.name)
      info == get(entity, api_name)
      popped == SubSeq(frames, 1, Len(frames) - 1)
  IN IF top.phase = "after"
     THEN [status |-> "running", stack |-> popped,
           emit |-> <<Call("processType", top.name)>>, mark |-> {top.name}]
     ELSE IF info = nullptr
     THEN [status |-> "exit1", stack |-> frames, emit |-> <<>>, mark |-> {}]
     ELSE IF top.name \in done
     THEN [status |-> "running", stack |-> popped, emit |-> <<>>, mark |-> {}]
     ELSE IF entity[info].requires # ""
     THEN [status |-> "running",
           stack |-> Append(Append(popped, Frame(top.name, "after")),
                            Frame(entity[info].requires, "enter")),
           emit |-> <<>>, mark |-> {}]
     ELSE [status |-> "running", stack |-> popped,
           emit |-> <<Call("processType", top.name)>>, mark |-> {top.name}]

\* output_type, one activation step at a time.  The recursion has no bound
\* of its own; the call stack holds MaxDepth activations, and a call that
\* needs one more exhausts it, which kills the process ("segv").
output_type ==
  /\ pc = "output_type"
  /\ status = "running"
  /\ LET r == OutputTypeStep(stack, processed, type_map, options.api_name)
     IN IF Len(r.stack) > MaxDepth
        THEN /\ Stop("segv", <<>>)
             /\ UNCHANGED <<stack, sink, processed>>
        ELSE /\ sink' = sink \o r.emit
             /\ processed' = processed \cup r.mark
             /\ IF r.status = "running"
                THEN /\ stack' = r.stack
                     /\ pc' = IF r.stack = <<>> THEN it.ret ELSE pc
                     /\ UNCHANGED <<status, stderr_>>
                ELSE /\ Stop(r.status, <<"FATAL ERROR", "Couldn't find type for api",
                                         {stack[Len(stack)].name}>>)
                     /\ UNCHANGED stack
  /\ UNCHANGED <<entityVars, root, options, type_map, enum_map, command_map,
                 group_map, feature_elements, api_version_numbers, user_data,
                 entity_sets, it, cur, todo, applied, last_ref>>

\* The loop over entity_sets["type"], in the set's iteration order, which
\* is not specified: any element not yet visited may come next.
TypeLoop ==
  /\ pc = "types"
  /\ status = "running"
  /\ IF todo = {}
     THEN /\ todo' = entity_sets["group"]
          /\ pc' = "groups"
          /\ UNCHANGED <<stack, it, status, stderr_>>
     ELSE \E type_name \in todo :
            /\ todo' = todo \ {type_name}
            /\ IF type_name \notin DOMAIN type_map
               THEN /\ Stop("exit1", <<"FATAL ERROR", "Reference to undefined type",
                                       {type_name}>>)
                    /\ UNCHANGED <<stack, it>>
               ELSE /\ stack' = <<Frame(type_name, "enter")>>
                    /\ it' = [it EXCEPT !.ret = "types"]
                    /\ pc' = "output_type"
                    /\ UNCHANGED <<status, stderr_>>
  /\ UNCHANGED <<entityVars, root, options, type_map, enum_map, command_map,
                 group_map, processed, feature_elements, api_version_numbers,
                 user_data, entity_sets, cur, sink, applied, last_ref>>

\* A group loop that treats a name without an entry in the group map the
\* way the enumerant and command loops treat theirs.
GroupLoopStrict ==
  /\ pc = "groups"
  /\ status = "running"
  /\ IF todo = {}
     THEN /\ todo' = entity_sets["enum"]
          /\ pc' = "enums"
          /\ UNCHANGED <<sink, status, stderr_>>
     ELSE \E group_name \in todo :
            /\ todo' = todo \ {group_name}
            /\ IF group_name \notin DOMAIN group_map
               THEN /\ Stop("exit1", <<"FATAL ERROR", "Reference to undefined group",
                                       {group_name}>>)
                    /\ UNCHANGED sink
               ELSE /\ sink' = Append(sink, Call("processEnumGroup", group_name))
                    /\ UNCHANGED <<pc, status, stderr_>>
  /\ UNCHANGED <<entityVars, root, options, type_map, enum_map, command_map,
                 group_map, processed, feature_elements, api_version_numbers,
                 user_data, entity_sets, it, cur, stack, applied, last_ref>>

\* A group loop that hands over to the command loop, leaving the enumerant
\* loop out.
GroupLoopSkipsEnums ==
  /\ pc = "groups"
  /\ status = "running"
  /\ IF todo = {}
     THEN /\ todo' = entity_sets["command"]
          /\ pc' = "commands"
          /\ UNCHANGED <<sink, status, stderr_>>
     ELSE \E group_name \in todo :
            /\ todo' = todo \ {group_name}
            /\ IF group_name \notin DOMAIN group_map
               THEN UNCHANGED <<sink, pc, status, stderr_>>
               ELSE /\ sink' = Append(sink, Call("processEnumGroup", group_name))
                    /\ UNCHANGED <<pc, status, stderr_>>
  /\ UNCHANGED <<entityVars, root, options, type_map, enum_map, command_map,
                 group_map, processed, feature_elements, api_version_numbers,
                 user_data, entity_sets, it, cur, stack, applied, last_ref>>

\* The loop over entity_sets["group"].
GroupLoop ==
  /\ pc = "groups"
  /\ status = "running"
  /\ IF todo = {}
     THEN /\ todo' = entity_sets["enum"]
          /\ pc' = "enums"
          /\ UNCHANGED <<sink, status, stderr_>>
     ELSE \E group_name \in todo :
            /\ todo' = todo \ {group_name}
            /\ IF group_name \notin DOMAIN group_map
               THEN UNCHANGED <<sink, pc, status, stderr_>>
               ELSE IF get(group_map[group_name], options.api_name) = nullptr
               THEN /\ Stop("exit1", <<"FATAL ERROR", "Failed to find group",
                                       {group_name}>>)
                    /\ UNCHANGED sink
               ELSE /\ sink' = Append(sink, Call("processEnumGroup", group_name))
                    /\ UNCHANGED <<pc, status, stderr_>>
  /\ UNCHANGED <<entityVars, root, options, type_map, enum_map, command_map,
                 group_map, processed, feature_elements, api_version_numbers,
                 user_data, entity_sets, it, cur, stack, applied, last_ref>>

\* The loop over entity_sets["enum"].
EnumLoop ==
  /\ pc = "enums"
  /\ status = "running"
  /\ IF todo = {}
     THEN /\ todo' = entity_sets["command"]
          /\ pc' = "commands"
          /\ UNCHANGED <<sink, status, stderr_>>
     ELSE \E enum_name \in todo :
            /\ todo' = todo \ {enum_name}
            /\ IF enum_name \notin DOMAIN enum_map
               THEN /\ Stop("exit1", <<"FATAL ERROR", "Reference to undefined enumerant",
                                       {enum_name}>>)
                    /\ UNCHANGED sink
               ELSE IF get(enum_map[enum_name], options.api_name) = nullptr
               THEN /\ Stop("exit1", <<"FATAL ERROR", "Failed to find enumerant",
                                       {enum_name}>>)
                    /\ UNCHANGED sink
               ELSE /\ sink' = Append(sink, Call("processEnumerant", enum_name))
                    /\ UNCHANGED <<pc, status, stderr_>>
  /\ UNCHANGED <<entityVars, root, options, type_map, enum_map, command_map,
                 group_map, processed, feature_elements, api_version_numbers,
                 user_data, entity_sets, it, cur, stack, applied, last_ref>>

\* The loop over entity_sets["command"], then options.generator->end().
CommandLoop ==
  /\ pc = "commands"
  /\ status = "running"
  /\ IF todo = {}
     THEN /\ sink' = Append(sink, Call("end", ""))
          /\ status' = "exit0"
          /\ pc' = "done"
          /\ UNCHANGED <<todo, stderr_>>
     ELSE \E command_name \in todo :
            /\ todo' = todo \ {command_name}
            /\ IF command_name \notin DOMAIN command_map
               THEN /\ Stop("exit1", <<"FATAL ERROR", "Reference to undefined command",
                                       {command_name}>>)
                    /\ UNCHANGED sink
               ELSE IF get(command_map[command_name], options.api_name) = nullptr
               THEN /\ Stop("exit1", <<"FATAL ERROR", "Failed to find command",
                                       {command_name}>>)
                    /\ UNCHANGED sink
               ELSE /\ sink' = Append(sink, Call("processCommand", command_name))
                    /\ UNCHANGED <<pc, status, stderr_>>
  /\ UNCHANGED <<entityVars, root, options, type_map, enum_map, command_map,
                 group_map, processed, feature_elements, api_version_numbers,
                 user_data, entity_sets, it, cur, stack, applied, last_ref>>

\* ------------------------------------------------------------------------
\* The registry documents and options explored
\* ------------------------------------------------------------------------
\* Version strings, as sequences of characters.
V_1_0 == <<"1", ".", "0">>
V_1_9 == <<"1", ".", "9">>
V_1_10 == <<"1", ".", "1", "0">>
V_2_0 == <<"2", ".", "0">>
V_abc == <<"a", "b", "c">>

AnyProfile == NoAttr
Require(profile, refs) == Op("require", profile, refs)
Remove(profile, refs) == Op("remove", profile, refs)

\* <types>: the four bootstrap types, then the chain A requires B requires C.
BootstrapElems ==
  [i \in 1..Len(BootstrapTypes) |-> TypeElem(BootstrapTypes[i], "", "")]
BaseTypes ==
  BootstrapElems \o <<TypeElem("A", "", "B"), TypeElem("B", "", "C"),
                      TypeElem("C", "", "")>>

\* <commands>: cmdA returns GLuint and takes an A of group G1; cmdB returns
\* void and takes an A of group G2 (a group no <group> element defines) and
\* a parameter with neither an api type nor a group.
BaseCommands ==
  <<CommandElem("cmdA", "GLuint", <<Param("A", "G1")>>),
    CommandElem("cmdB", "", <<Param("A", "G2"), Param("", "")>>)>>

\* <enums>: E1 for every api; E2 with a gles2 variant and a default one;
\* E3 for gles2 only.
BaseEnums ==
  <<EnumElem("E1", ""), EnumElem("E2", "gles2"), EnumElem("E2", ""),
    EnumElem("E3", "gles2")>>

BaseGroups == <<GroupElem("G1", <<"E1", "E2">>)>>

BaseFeatures ==
  <<Feature("gl", V_1_0,
            <<Require(AnyProfile, <<Ref("type", "A"), Ref("enum", "E1"),
                             Ref("command", "cmdA")>>)>>),
    Feature("gles2", V_1_0, <<Require(AnyProfile, <<Ref("enum", "E3")>>)>>)>>

BaseExtensions ==
  <<Extension("GL_X1", <<"gl", "glcore">>,
              <<Require(AnyProfile, <<Ref("enum", "E2")>>)>>)>>

BaseRoot ==
  [types |-> BaseTypes, commands |-> BaseCommands, enums |-> BaseEnums,
   groups |-> BaseGroups, features |-> BaseFeatures,
   extensions |-> BaseExtensions]

\* GenerationOptions as main() leaves them: --ver is parsed by ApiVersion
\* and rejected unless valid; --profile is core or compatibility.
Options(api_name, version_string, profile, extensions) ==
  [api_name |-> api_name, api_version |-> ApiVersion(version_string),
   profile |-> profile, extensions |-> extensions]

Profiles == {"core", "compatibility"}
TargetVersions == {V_1_0, V_1_9, V_2_0}

\* The documents that vary the <feature> elements.
FeatureHeaders ==
  {<<"gl", V_1_0>>, <<"gl", V_1_10>>, <<"gl", V_2_0>>, <<"gl", V_abc>>,
   <<"gles2", V_1_0>>}
FeatureOps ==
  {<<Require(AnyProfile, <<Ref("type", "A"), Ref("enum", "E1"), Ref("command", "cmdA")>>)>>,
   <<Remove(AnyProfile, <<Ref("enum", "E1"), Ref("command", "cmdA")>>),
     Remove("compatibility", <<Ref("enum", "E2")>>)>>,
   <<Remove(AnyProfile, <<Ref("type", "A")>>),
     Require("compatibility", <<Ref("command", "cmdB")>>)>>}
FeatureChoices ==
  {Feature(h[1], h[2], ops) : h \in FeatureHeaders, ops \in FeatureOps}

FeatureScenarios ==
  {[root |-> [BaseRoot EXCEPT !.features = features],
    options |-> Options("gl", v, profile, {"GL_X1"})] :
     features \in SeqsUpTo(FeatureChoices, MaxFeatures),
     v \in TargetVersions, profile \in Profiles}

\* The documents that vary the <extension> elements and the requested set.
ExtensionOps ==
  {<<Require(AnyProfile, <<Ref("enum", "E2"), Ref("command", "cmdB")>>)>>,
   <<Remove(AnyProfile, <<Ref("enum", "E1"), Ref("command", "cmdA")>>),
     Require("core", <<Ref("type", "C")>>)>>}
ExtensionChoices ==
  {Extension(name, supported, ops) :
     name \in {"GL_X1", "GL_X2"},
     supported \in {<<"gl">>, <<"gl", "gles2">>},
     ops \in ExtensionOps}

ExtensionScenarios ==
  {[root |-> [BaseRoot EXCEPT !.extensions = extensions],
    options |-> Options(api_name, V_1_0, profile, requested)] :
     extensions \in SeqsUpTo(ExtensionChoices, MaxExtensions),
     api_name \in ApiNames, profile \in Profiles,
     requested \in {{}, {"GL_X1"}, {"GL_X1", "GL_X2"}}}

\* The documents that vary the <type> elements: the requires edges of A, B
\* and C, an optional api-specific second variant of A, of B or of the
\* bootstrap type GLuint, and which types the only feature selects.
TypeVariants ==
  {<<>>, <<TypeElem("A", "gles2", "C")>>, <<TypeElem("B", "gl", "")>>,
   <<TypeElem("GLuint", "gl", "C")>>}
TypeSelections ==
  {<<Ref("type", "A")>>,
   <<Ref("type", "B"), Ref("type", "A"), Ref("type", "GLuint")>>,
   <<Ref("type", "C"), Ref("command", "cmdA")>>}

TypeScenarios ==
  {[root |-> [BaseRoot EXCEPT
                !.types = BootstrapElems
                          \o <<TypeElem("A", "", ra), TypeElem("B", "", rb),
                               TypeElem("C", "", rc)>> \o extra,
                !.features = <<Feature(api_name, V_1_0, <<Require(AnyProfile, refs)>>)>>],
    options |-> Options(api_name, V_1_0, "core", {})] :
     ra \in {"", "B", "C", "A"}, rb \in {"", "C", "A", "GLenum"},
     rc \in {"", "A", "Z"},
     extra \in TypeVariants, refs \in TypeSelections, api_name \in ApiNames}

\* Documents with one defect each: a reference the maps cannot resolve, an
\* element without a required attribute.
DefectOps ==
  {<<Require(AnyProfile, <<Ref("command", "cmdZ")>>)>>,
   <<Require(AnyProfile, <<Ref("enum", "E1")>>), Require(AnyProfile, <<Ref("type", "")>>)>>,
   <<Require(AnyProfile, <<Ref("type", "Z")>>)>>,
   <<Require(AnyProfile, <<Ref("enum", "E9")>>)>>,
   <<Require(AnyProfile, <<Ref("enum", "E3")>>)>>,
   <<Require(AnyProfile, <<Ref("enum", "E1")>>)>>}
DefectFeatures ==
  {<<Feature("gl", V_1_0, ops)>> : ops \in DefectOps}
  \cup {<<Feature("gl", V_1_0, <<>>), Feature(NoAttr, V_1_0, <<>>)>>}
DefectExtensions ==
  {<<Extension("GL_X1", <<"gl">>, ops)>> : ops \in DefectOps}
  \cup {<<>>, <<Extension("", <<"gl">>, <<>>)>>,
        <<Extension("GL_X1", <<>>, <<>>)>>}
DefectGroups ==
  {BaseGroups, <<GroupElem("G1", <<"E1", "E9">>)>>,
   <<GroupElem("G1", <<"E1">>), GroupElem("G3", <<"E3">>)>>}
DefectTypes ==
  {BaseTypes, SubSeq(BaseTypes, 1, 2) \o SubSeq(BaseTypes, 4, 7)}

DefectScenarios ==
  {[root |-> [BaseRoot EXCEPT !.features = features, !.extensions = extensions,
                              !.groups = groups, !.types = types],
    options |-> Options("gl", V_1_0, "core", {"GL_X1"})] :
     features \in DefectFeatures, extensions \in DefectExtensions,
     groups \in DefectGroups, types \in DefectTypes}

Scenarios ==
  FeatureScenarios \cup ExtensionScenarios \cup TypeScenarios \cup DefectScenarios

\* ------------------------------------------------------------------------
\* Specifications
\* ------------------------------------------------------------------------
\* generate() is about to start on a document, with options from main().
InitPipelineVars(scenario) ==
  /\ root = scenario.root
  /\ options = scenario.options
  /\ type_map = EmptyMap
  /\ enum_map = EmptyMap
  /\ command_map = EmptyMap
  /\ group_map = EmptyMap
  /\ processed = {}
  /\ feature_elements = <<>>
  /\ api_version_numbers = <<>>
  /\ user_data = <<>>
  /\ entity_sets = EmptySets
  /\ pc = "load"
  /\ it = [feature |-> 1, extension |-> 1, bootstrap |-> 1, ret |-> "none"]
  /\ cur = [ops |-> <<>>, pos |-> [oi |-> 1, ri |-> 1], ret |-> "none"]
  /\ stack = <<>>
  /\ todo = {}
  /\ sink = <<>>
  /\ status = "running"
  /\ stderr_ = <<>>
  /\ applied = <<>>
  /\ last_ref = NoRef

\* The whole program: main() has parsed its options and calls generate().
Init ==
  /\ InitEntityVars
  /\ \E scenario \in Scenarios : InitPipelineVars(scenario)

Next ==
  \/ LoadEntities
  \/ CollectFeatures
  \/ SortFeatures
  \/ FeatureLoop
  \/ ProcessOperationsRef
  \/ ProcessOperationsReturn
  \/ ScanExtension
  \/ CheckExtensions
  \/ Bootstrap
  \/ output_type
  \/ TypeLoop
  \/ GroupLoop
  \/ EnumLoop
  \/ CommandLoop

Spec == Init /\ [][Next]_vars

\* The program on the documents that vary the requires edges.  generate()
\* is sequential code that keeps running until the process ends: whenever
\* a step is possible, one is taken.
InitRequires ==
  /\ InitEntityVars
  /\ \E scenario \in TypeScenarios : InitPipelineVars(scenario)

SpecRequires == InitRequires /\ [][Next]_vars /\ WF_vars(Next)

\* One ApiEntity on its own: variants are added, and looked up by api.
InitEntity ==
  /\ InitEntityVars
  /\ InitPipelineVars([root |-> BaseRoot,
                       options |-> Options("gl", V_1_0, "core", {})])

NextEntity ==
  \/ Add /\ UNCHANGED pipelineVars
  \/ Get /\ UNCHANGED pipelineVars

SpecEntity == InitEntity /\ [][NextEntity]_vars

\* ------------------------------------------------------------------------
\* Properties of ApiEntity::get (SpecEntity)
\* ------------------------------------------------------------------------
\* The variants of the entity tagged for the api last looked up, and its
\* default-tagged variants, as positions in the order they were added.
SpecificVariants == {i \in 1..Len(set_) : set_[i].api = get_api}
DefaultVariants == {i \in 1..Len(set_) : set_[i].api = ""}
Looked == get_api # NoAttr
First(S) == CHOOSE i \in S : \A j \in S : i <= j
Last(S) == CHOOSE i \in S : \A j \in S : j <= i

\* C1: get(api) returns a variant tagged for api if one was added, else a
\* default-tagged variant if one was added, else nullptr; a default variant
\* is never returned while a specific one exists, whatever the order.
C1_GetPrefersSpecific ==
  Looked =>
    IF SpecificVariants # {} THEN get_result \in SpecificVariants
    ELSE IF DefaultVariants # {} THEN get_result \in DefaultVariants
    ELSE get_result = nullptr

\* C1 witness: a default variant added after a specific one, and the
\* specific one returned.
C1_Witness ==
  /\ Looked
  /\ \E i \in SpecificVariants : \E j \in DefaultVariants : i < j
  /\ \E i \in SpecificVariants : \E j \in DefaultVariants : j < i
  /\ get_result \in SpecificVariants

\* C2 as claimed: among several variants of the same case, get(api) returns
\* the one added last.
C2_LastAddedWins ==
  Looked =>
    /\ SpecificVariants # {} => get_result = Last(SpecificVariants)
    /\ (SpecificVariants = {} /\ DefaultVariants # {})
         => get_result = Last(DefaultVariants)

\* C2 amended: among several variants tagged for the api, get(api) returns
\* the one added last; with no specific variant, among several default
\* variants it returns the one added first.
C2_LastSpecificFirstDefault ==
  Looked =>
    /\ SpecificVariants # {} => get_result = Last(SpecificVariants)
    /\ (SpecificVariants = {} /\ DefaultVariants # {})
         => get_result = First(DefaultVariants)

\* C2 witness: a lookup with no specific variant and several default ones,
\* answered with the first of them and not the last.
C2_Witness ==
  /\ Looked
  /\ SpecificVariants = {}
  /\ Cardinality(DefaultVariants) >= 2
  /\ get_result = First(DefaultVariants)
  /\ get_result # Last(DefaultVariants)

\* ------------------------------------------------------------------------
\* Properties of version replay (Spec)
\* ------------------------------------------------------------------------
\* What a well-formed version string of the documents denotes.
WellFormed == {V_1_0, V_1_9, V_1_10, V_2_0}
Denotes(s) ==
  CASE s = V_1_0 -> <<1, 0>> [] s = V_1_9 -> <<1, 9>>
    [] s = V_1_10 -> <<1, 10>> [] s = V_2_0 -> <<2, 0>>
PairLE(a, b) == a[1] < b[1] \/ (a[1] = b[1] /\ a[2] <= b[2])
PairLess(a, b) == PairLE(a, b) /\ a # b

\* The <feature> elements tagged for the requested api, and their versions.
TargetFeatures ==
  {f \in 1..Len(root.features) : root.features[f].api = options.api_name}
FeaturePair(f) == Denotes(root.features[f].number)
TargetPair == <<options.api_version.ver_maj_, options.api_version.ver_min_>>
DistinctVersions ==
  /\ \A f \in TargetFeatures : root.features[f].number \in WellFormed
  /\ \A f, g \in TargetFeatures : f # g => FeaturePair(f) # FeaturePair(g)
Eligible == {f \in TargetFeatures : PairLE(FeaturePair(f), TargetPair)}

\* The feature elements handed to processOperations so far, in order.
AppliedFeatures ==
  LET a == SelectSeq(applied, LAMBDA x : x.kind = "feature")
  IN [i \in 1..Len(a) |-> a[i].index]

\* The "Process API versions" loop has been left.
ReplayDone ==
  \/ pc \in {"extensions", "bootstrap", "output_type", "types", "groups",
             "enums", "commands", "done"}
  \/ pc = "ops" /\ cur.ret = "extensions"

\* C3: with pairwise distinct versions on the target api's feature blocks,
\* in any document order, the blocks handed to processOperations are only
\* blocks of the target api with version <= target, in strictly ascending
\* version order with none skipped, and once the replay loop is left they
\* are exactly those blocks (a block at the target version included).
C3_ReplayAscendingUpToTarget ==
  DistinctVersions =>
    LET a == AppliedFeatures
    IN /\ \A i \in 1..Len(a) : a[i] \in Eligible
       /\ \A i, j \in 1..Len(a) :
            i < j => PairLess(FeaturePair(a[i]), FeaturePair(a[j]))
       /\ \A i \in 1..Len(a) : \A g \in Eligible :
            PairLess(FeaturePair(g), FeaturePair(a[i]))
              => \E j \in 1..(i - 1) : a[j] = g
       /\ ReplayDone => Range(a) = Eligible

\* C3 witness: two blocks applied against document order, the later one at
\* exactly the target version, and the replay loop left.
C3_Witness ==
  /\ DistinctVersions
  /\ ReplayDone
  /\ Len(AppliedFeatures) = 2
  /\ AppliedFeatures[1] > AppliedFeatures[2]
  /\ FeaturePair(AppliedFeatures[2]) = TargetPair
  /\ status = "exit0"

\* C3 witness of the exclusion: a block of the target api above the target
\* version and a block of another api, neither applied.
C3_WitnessExcluded ==
  /\ DistinctVersions
  /\ ReplayDone
  /\ \E f \in TargetFeatures : ~PairLE(FeaturePair(f), TargetPair)
  /\ Len(AppliedFeatures) = 1
  /\ status = "exit0"

\* C4 as claimed: a feature block of the target api with a malformed
\* version string ends version resolution in a fatal error: the block is
\* never handed to processOperations, the replay loop is never left and the
\* sink's start is never called.
C4_MalformedVersionIsFatal ==
  \A f \in TargetFeatures :
    root.features[f].number \notin WellFormed =>
      /\ f \notin Range(AppliedFeatures)
      /\ ~ReplayDone
      /\ sink = <<>>

\* The replay loop has just been left: entity_sets is what version
\* resolution produced, no extension has been scanned yet.
VersionsResolved ==
  status = "running" /\ pc = "extensions" /\ it.extension = 1

VersionPair(v) == <<v.ver_maj_, v.ver_min_>>

\* No kept feature block with version in (v1, v2] has a remove directive.
NoRemoveBetween(v1, v2) ==
  \A f \in Range(feature_elements) :
    (/\ ~PairLE(VersionPair(VersionOf(f)), VersionPair(v1))
     /\ PairLE(VersionPair(VersionOf(f)), VersionPair(v2)))
      => \A o \in 1..Len(root.features[f].ops) :
           root.features[f].ops[o].tag # "remove"

\* C5: for the same document, api and profile and target versions V1 <= V2
\* with no remove directive in a feature block of version in (V1, V2], each
\* selection set of resolving at V1 is a subset of the one of resolving at V2.
C5_Monotonic ==
  VersionsResolved =>
    \A s1 \in TargetVersions :
      LET v1 == ApiVersion(s1)
          r1 == ReplayVersions(feature_elements, 1, v1, EmptySets)
      IN (/\ PairLE(VersionPair(v1), TargetPair)
          /\ NoRemoveBetween(v1, options.api_version))
           => /\ r1.status = "running"
              /\ \A t \in EntityTypes : r1.sets[t] \subseteq entity_sets[t]

\* C5 witness: resolved at 2.0; resolving at 1.0 selects something, less
\* than what 2.0 selects, and no remove lies between.
C5_Witness ==
  /\ VersionsResolved
  /\ TargetPair = <<2, 0>>
  /\ NoRemoveBetween(ApiVersion(V_1_0), options.api_version)
  /\ LET r1 == ReplayVersions(feature_elements, 1, ApiVersion(V_1_0), EmptySets)
     IN /\ r1.sets # EmptySets
        /\ r1.sets # entity_sets
        /\ \A t \in EntityTypes : r1.sets[t] \subseteq entity_sets[t]

\* The directives of an op list: where they are and what they say.
DirectivesOf(ops) ==
  {[oi |-> p[1], ri |-> p[2], tag |-> ops[p[1]].tag,
    profile |-> ops[p[1]].profile, ref |-> ops[p[1]].refs[p[2]]] :
     p \in {q \in (1..Len(ops)) \X (1..4) : q[2] <= Len(ops[q[1]].refs)}}
ProfileApplies(d) == d.profile = NoAttr \/ d.profile = options.profile

\* Every directive of the document that names entity e, with its block.
Naming(e) ==
  UNION {{<<"feature", f, d.oi, d.ri>> :
            d \in {x \in DirectivesOf(root.features[f].ops) : x.ref = e}} :
           f \in 1..Len(root.features)}
  \cup
  UNION {{<<"extension", x, d.oi, d.ri>> :
            d \in {y \in DirectivesOf(root.extensions[x].ops) : y.ref = e}} :
           x \in 1..Len(root.extensions)}

\* The entities a directive can name.
Nameable ==
  UNION {{d.ref : d \in DirectivesOf(root.features[f].ops)} :
           f \in 1..Len(root.features)}

\* The document has the shape of C6 for blocks f, g and entity e: exactly
\* two blocks of the target api, f below g, f requires e, g removes e, both
\* under a profile that applies, and nothing else names e.
RemovalShape(f, g, e) ==
  /\ TargetFeatures = {f, g}
  /\ root.features[f].number \in WellFormed
  /\ root.features[g].number \in WellFormed
  /\ PairLess(FeaturePair(f), FeaturePair(g))
  /\ \E d \in DirectivesOf(root.features[f].ops) :
       d.ref = e /\ d.tag = "require" /\ ProfileApplies(d)
  /\ \E d \in DirectivesOf(root.features[g].ops) :
       d.ref = e /\ d.tag = "remove" /\ ProfileApplies(d)
  /\ Cardinality(Naming(e)) = 2

\* The api types the commands of a name reference.
TypesReferencedBy(command_name) ==
  UNION {{c.referenced_api_type} \cup
         {c.parameters[i].referenced_api_type : i \in 1..Len(c.parameters)} :
           c \in {x \in Range(root.commands) : x.name = command_name}}

\* A require directive of block g that applies, comes after the remove of
\* e, and names a command that references e as a type.
ReinferredAfterRemove(g, e) ==
  /\ e.entity_type = "type"
  /\ \E d, r \in DirectivesOf(root.features[g].ops) :
       /\ r.ref = e /\ r.tag = "remove"
       /\ d.tag = "require" /\ ProfileApplies(d)
       /\ d.ref.entity_type = "command"
       /\ d.oi > r.oi \/ (d.oi = r.oi /\ d.ri > r.ri)
       /\ e.name \in TypesReferencedBy(d.ref.name)

\* C6 as claimed: in a document of that shape, e is selected when
\* resolving at f's version and not selected when resolving at g's.
C6_RemovalHonored ==
  VersionsResolved =>
    \A f, g \in TargetFeatures : \A e \in Nameable :
      RemovalShape(f, g, e) =>
        /\ TargetPair = FeaturePair(f) => e.name \in entity_sets[e.entity_type]
        /\ TargetPair = FeaturePair(g) => e.name \notin entity_sets[e.entity_type]

\* C6 amended: the same, provided no require directive applied after the
\* remove in g's block names a command whose return type or a parameter
\* type is e.
C6_RemovalHonoredUnlessReinferred ==
  VersionsResolved =>
    \A f, g \in TargetFeatures : \A e \in Nameable :
      (RemovalShape(f, g, e) /\ ~ReinferredAfterRemove(g, e)) =>
        /\ TargetPair = FeaturePair(f) => e.name \in entity_sets[e.entity_type]
        /\ TargetPair = FeaturePair(g) => e.name \notin entity_sets[e.entity_type]

\* C6 witness: the shape holds for a command, resolved at the removing
\* block's version, with the command gone and the replay having applied
\* both blocks.
C6_Witness ==
  /\ VersionsResolved
  /\ Len(AppliedFeatures) = 2
  /\ \E f, g \in TargetFeatures : \E e \in Nameable :
       /\ RemovalShape(f, g, e) /\ ~ReinferredAfterRemove(g, e)
       /\ e.entity_type = "command"
       /\ TargetPair = FeaturePair(g)
       /\ e.name \notin entity_sets[e.entity_type]

\* C7: right after processOperations applies a require directive for a
\* command, the type set holds the api type of its return type and of each
\* parameter, and the group set the group of each parameter (where not empty).
C7_CommandInference ==
  (/\ status = "running" /\ pc = "ops"
   /\ last_ref.tag = "require" /\ last_ref.entity_type = "command")
    => \A c \in {x \in Range(root.commands) : x.name = last_ref.name} :
         /\ c.referenced_api_type # ""
              => c.referenced_api_type \in entity_sets["type"]
         /\ \A i \in 1..Len(c.parameters) :
              /\ c.parameters[i].referenced_api_type # ""
                   => c.parameters[i].referenced_api_type \in entity_sets["type"]
              /\ c.parameters[i].group # ""
                   => c.parameters[i].group \in entity_sets["group"]

\* C7 witness: cmdB has just been required, no require directive of the
\* document names type A, cmdA (which also references A) is not selected,
\* and A and G2 are selected.
C7_Witness ==
  /\ status = "running" /\ pc = "ops"
  /\ last_ref = [tag |-> "require", entity_type |-> "command", name |-> "cmdB"]
  /\ \A f \in 1..Len(root.features) :
       \A d \in DirectivesOf(root.features[f].ops) :
         d.ref = Ref("type", "A") => d.tag = "remove"
  /\ \A x \in 1..Len(root.extensions) :
       \A d \in DirectivesOf(root.extensions[x].ops) :
         d.ref = Ref("type", "A") => d.tag = "remove"
  /\ "cmdA" \notin entity_sets["command"]
  /\ "A" \in entity_sets["type"]
  /\ "G2" \in entity_sets["group"]

\* ------------------------------------------------------------------------
\* Properties of extension processing (Spec)
\* ------------------------------------------------------------------------
\* generate() is at the head of the extension loop with a block to scan.
AtExtension ==
  status = "running" /\ pc = "extensions" /\ it.extension <= Len(root.extensions)
\* processOperations returns to the extension loop in this step.
ExtensionReturns ==
  status = "running" /\ pc = "ops" /\ cur.ret = "extensions" /\ pc' = "extensions"

\* C8: a scanned extension block is handed to processOperations iff its
\* name is in the requested set at that moment and the api name is, in
\* full, one of the alternatives of its supported pattern; exactly then its
\* name is erased from the requested set (when processOperations returns);
\* any other block leaves the selection and the requested set unchanged,
\* and nothing else changes the selection during the extension loop.
C8_ExtensionConsumption ==
  [][LET x == it.extension
     IN /\ AtExtension =>
             LET e == root.extensions[x]
             IN IF e.name \in options.extensions
                   /\ options.api_name \in Range(e.supported)
                THEN /\ pc' = "ops"
                     /\ cur'.ops = e.ops
                     /\ cur'.ret = "extensions"
                     /\ applied' = Append(applied, [kind |-> "extension", index |-> x])
                     /\ options' = options
                ELSE /\ entity_sets' = entity_sets
                     /\ options' = options
                     /\ applied' = applied
                     /\ pc' # "ops"
        /\ ExtensionReturns =>
             /\ options'.extensions = options.extensions \ {root.extensions[x].name}
             /\ applied[Len(applied)] = [kind |-> "extension", index |-> x]
        /\ options' # options => ExtensionReturns
        /\ (ReplayDone /\ entity_sets' # entity_sets) =>
             /\ pc = "ops"
             /\ applied[Len(applied)] = [kind |-> "extension", index |-> x]
    ]_vars

\* C8 witness: on api gles2, a requested block supported only by "gl" was
\* passed over with a warning and a requested block whose pattern has the
\* alternative gles2 was consumed and erased from the requested set.
C8_Witness ==
  /\ status = "running" /\ pc = "extensions"
  /\ options.api_name = "gles2"
  /\ it.extension = 3
  /\ root.extensions[1].supported = <<"gl">>
  /\ root.extensions[1].name # root.extensions[2].name
  /\ options.extensions = {root.extensions[1].name}
  /\ \E i \in 1..Len(applied) : applied[i] = [kind |-> "extension", index |-> 2]
  /\ \E i \in 1..Len(stderr_) : stderr_[i][1] = "WARNING"
  /\ entity_sets["command"] = {"cmdB"}

\* generate() has left the extension loop and is at the check of the
\* names still requested.
AtExtensionCheck ==
  status = "running" /\ pc = "extensions" /\ it.extension > Len(root.extensions)

\* C9: after the last extension block, a non-empty requested set ends the
\* run with one fatal message naming every name still in the set, before
\* the sink's start, so the sink is never called; an empty set lets the run
\* go on to start().  Nothing happens after the process has ended.
C9_UnresolvedExtensionsFatal ==
  [][/\ status = "running"
     /\ AtExtensionCheck =>
          IF options.extensions # {}
          THEN /\ status' = "exit1"
               /\ stderr_' = Append(stderr_, <<"FATAL ERROR", "Invalid extensions specified",
                                               options.extensions>>)
               /\ sink = <<>> /\ sink' = <<>>
          ELSE /\ status' = "running"
               /\ sink' = <<Call("start", options.api_name)>>
     /\ sink' # <<>> => options'.extensions = {}
    ]_vars

\* C9 witness: the run has ended in the fatal error with two names left,
\* one that matched no block and one whose only block does not support the
\* api, both named in the message, and no sink call made.
C9_Witness ==
  /\ status = "exit1" /\ pc = "extensions"
  /\ it.extension > Len(root.extensions)
  /\ options.extensions = {"GL_X1", "GL_X2"}
  /\ {root.extensions[i].name : i \in 1..Len(root.extensions)} = {"GL_X1"}
  /\ stderr_[Len(stderr_)] =
       <<"FATAL ERROR", "Invalid extensions specified", {"GL_X1", "GL_X2"}>>
  /\ sink = <<>>

\* ------------------------------------------------------------------------
\* Properties of type emission (Spec)
\* ------------------------------------------------------------------------
\* The <type> element that defines type t for the requested api: the one
\* tagged for the api, or else the untagged one.
TargetDefinition(t) ==
  LET named == {e \in Range(root.types) : e.name = t}
      tagged == {e \in named : e.api = options.api_name}
  IN IF tagged # {} THEN CHOOSE e \in tagged : TRUE
     ELSE CHOOSE e \in named : e.api = ""

\* The positions of the sink's call sequence where type t was emitted.
EmittedAt(t) == {i \in 1..Len(sink) : sink[i] = Call("processType", t)}

\* C10: every type passed to processType whose definition for the target
\* api requires a type R comes strictly after R in the sink's calls.
C10_RequiredTypeFirst ==
  \A i \in 1..Len(sink) :
    sink[i].method = "processType" =>
      LET r == TargetDefinition(sink[i].name).requires
      IN r # "" => \E j \in EmittedAt(r) : j < i

\* C10 witness: the chain A requires B requires C with only A selected,
\* emitted as C, then B, then A.
C10_Witness ==
  /\ TargetDefinition("A").requires = "B"
  /\ TargetDefinition("B").requires = "C"
  /\ TargetDefinition("C").requires = ""
  /\ entity_sets["type"] = {"A"}
  /\ \E c \in EmittedAt("C"), b \in EmittedAt("B"), a \in EmittedAt("A") :
       c < b /\ b < a

\* ------------------------------------------------------------------------
\* Properties of the bootstrap types and of the sink's call order (Spec)
\* ------------------------------------------------------------------------
Foundational == {"GLenum", "GLuint", "GLsizei", "GLchar"}

\* The document defines type t for the requested api.
HasTargetDefinition(t) ==
  \E e \in Range(root.types) : e.name = t /\ e.api \in {"", options.api_name}

\* The type that t's definition for the requested api requires, if any.
RequiresOf(t) ==
  IF HasTargetDefinition(t) /\ TargetDefinition(t).requires # ""
  THEN {TargetDefinition(t).requires} ELSE {}

\* The types reachable from S along requires edges, S included.
RECURSIVE RequiresClosure(_)
RequiresClosure(S) ==
  LET next == S \cup UNION {RequiresOf(t) : t \in S}
  IN IF next = S THEN S ELSE RequiresClosure(next)

Ended == \E i \in 1..Len(sink) : sink[i].method = "end"

\* C11: a run that reached the sink's end call has passed each of GLenum,
\* GLuint, GLsizei and GLchar to processType; and at any time, a type
\* passed to processType that is neither one of the four nor reachable from
\* them along requires edges comes after all four in the sink's calls.
C11_BootstrapInvariant ==
  /\ Ended => \A b \in Foundational : EmittedAt(b) # {}
  /\ \A i \in 1..Len(sink) :
       (/\ sink[i].method = "processType"
        /\ sink[i].name \notin RequiresClosure(Foundational))
       => \A b \in Foundational : \E j \in EmittedAt(b) : j < i

\* C11 witness: a finished run whose selection has none of the four types
\* and no command that refers to one; GLuint requires C, which is emitted
\* before GLuint, and the selected type A is emitted after all four.
C11_Witness ==
  /\ Ended
  /\ entity_sets["type"] \cap Foundational = {}
  /\ \A c \in entity_sets["command"] :
       \A v \in Range(command_map[c]) : InferredTypes(v) \cap Foundational = {}
  /\ entity_sets["type"] # {}
  /\ \A t \in entity_sets["type"] : t \notin RequiresClosure(Foundational)
  /\ \E c \in EmittedAt("C"), u \in EmittedAt("GLuint") : c < u
  /\ \A b \in Foundational : EmittedAt(b) # {}

\* The place of a sink method in the order generate() calls them.
Rank(method) ==
  CASE method = "start" -> 0
    [] method = "processType" -> 1
    [] method = "processEnumGroup" -> 2
    [] method = "processEnumerant" -> 3
    [] method = "processCommand" -> 4
    [] method = "end" -> 5

CallsOf(method) == {i \in 1..Len(sink) : sink[i].method = method}
CallsFor(method, name) == {i \in 1..Len(sink) : sink[i] = Call(method, name)}
FatalRaised == \E i \in 1..Len(stderr_) : stderr_[i][1] = "FATAL ERROR"

\* C12: the sink's calls come in the order start, processType*,
\* processEnumGroup*, processEnumerant*, processCommand*, end; start and end
\* are called at most once, start before every other call, end after every
\* other call and only in a run without a fatal error; a run that completed
\* has called processEnumerant once for each selected enumerant, and
\* processCommand once for each selected command and for no other name.
C12_SinkCallOrder ==
  /\ \A i, j \in 1..Len(sink) :
       i < j => Rank(sink[i].method) <= Rank(sink[j].method)
  /\ Cardinality(CallsOf("start")) <= 1
  /\ Cardinality(CallsOf("end")) <= 1
  /\ sink # <<>> => sink[1].method = "start"
  /\ Ended => /\ sink[Len(sink)].method = "end"
              /\ status = "exit0"
              /\ ~FatalRaised
  /\ status = "exit0" =>
       /\ Ended
       /\ \A e \in entity_sets["enum"] :
            Cardinality(CallsFor("processEnumerant", e)) = 1
       /\ \A c \in entity_sets["command"] :
            Cardinality(CallsFor("processCommand", c)) = 1
       /\ \A i \in CallsOf("processCommand") :
            sink[i].name \in entity_sets["command"]

\* C12 witness: a completed run that made calls of all six kinds, for two
\* selected enumerants and a selected command.
C12_Witness ==
  /\ status = "exit0"
  /\ entity_sets["enum"] = {"E1", "E2"}
  /\ entity_sets["command"] = {"cmdA"}
  /\ \A m \in {"start", "processType", "processEnumGroup", "processEnumerant",
               "processCommand", "end"} : CallsOf(m) # {}

\* ------------------------------------------------------------------------
\* Properties of unresolved names (Spec)
\* ------------------------------------------------------------------------
\* The names the document declares.
GroupNames == {g.name : g \in Range(root.groups)}
EnumNames == {e.name : e \in Range(root.enums)}
CommandNames == {c.name : c \in Range(root.commands)}

\* What was written to stderr about a name.
MessagesAbout(name) == {i \in 1..Len(stderr_) : name \in stderr_[i][3]}

C13_WitnessEnumerant ==
  /\ pc = "enums"
  /\ status = "exit1"
  /\ "E9" \in entity_sets["enum"] \ EnumNames
  /\ MessagesAbout("E9") # {}

\* A <group> element of the document lists a member that no <enum> element
\* defines for the requested api (none of that name, or none of that name
\* that is untagged or tagged for the api).
BadMembers(g) ==
  {i \in 1..Len(g.enums) :
     ~\E e \in Range(root.enums) :
        e.name = g.enums[i] /\ e.api \in {"", options.api_name}}
BadGroupDeclared == \E g \in Range(root.groups) : BadMembers(g) # {}

\* C14: when some <group> element lists a member enumerant that is not
\* defined for the requested api, the run never gets past loading: no
\* feature or extension block is handed to processOperations, the selection
\* stays empty, the sink is never called, and the run ends in a fatal error
\* about such a member.
C14_LoadTimeGroupCheck ==
  BadGroupDeclared =>
    /\ pc = "load"
    /\ applied = <<>>
    /\ entity_sets = EmptySets
    /\ sink = <<>>
    /\ status \in {"running", "exit1"}
    /\ status = "exit1" =>
         /\ Len(stderr_) = 1
         /\ stderr_[1][1] = "FATAL ERROR"
         /\ \E g \in Range(root.groups) :
              \E i \in BadMembers(g) : stderr_[1][3] = {g.enums[i]}

\* C14 witness: the group G3, which no command parameter names and so is
\* never selected, lists E3, defined for gles2 only; the run for gl ended
\* in the fatal error at load time.
C14_Witness ==
  /\ status = "exit1"
  /\ pc = "load"
  /\ options.api_name = "gl"
  /\ \E g \in Range(root.groups) :
       /\ g.name = "G3"
       /\ BadMembers(g) # {}
       /\ stderr_[1][3] = {"E3"}
  /\ \A c \in Range(root.commands) : "G3" \notin InferredGroups(c)
  /\ root.features # <<>>

\* The reference processOperations applied last is a require of a command
\* that the document does not declare.
DanglingCommandRequired ==
  /\ last_ref.tag = "require"
  /\ last_ref.entity_type = "command"
  /\ last_ref.name \notin CommandNames

\* C15: once an applied require directive has named a command without a
\* definition, the run has ended with a FATAL ERROR message on stderr and
\* exit code 1, as it does for a dangling type or enumerant reference.
C15_DanglingCommandIsFatal ==
  DanglingCommandRequired =>
    /\ status = "exit1"
    /\ FatalRaised

\* What the run does instead: it ends abnormally, with nothing on stderr
\* from FAIL, with the name already inserted into the command selection.
C15_EndsAbnormally ==
  DanglingCommandRequired =>
    /\ status = "abort"
    /\ ~FatalRaised
    /\ sink = <<>>
    /\ last_ref.name \in entity_sets["command"]

\* A dangling type reference, by contrast, ends the run in a fatal error.
C15_DanglingTypeIsFatal ==
  (entity_sets["type"] \ DOMAIN type_map # {} /\ pc = "types"
   /\ status # "running")
  => status = "exit1" /\ FatalRaised

\* ------------------------------------------------------------------------
\* Properties of the processed flag (Spec)
\* ------------------------------------------------------------------------
\* The type names passed to processType so far.
EmittedTypes == {sink[i].name : i \in CallsOf("processType")}

\* A step sets the processed flag of exactly the type it has just passed
\* to processType, and clears no flag.
FlagFollowsCall ==
  /\ processed \subseteq processed'
  /\ \A t \in processed' \ processed :
       /\ sink' = Append(sink, Call("processType", t))
       /\ processed' = processed \cup {t}
  /\ sink' # sink /\ sink'[Len(sink')].method = "processType"
     => processed' = processed \cup {sink'[Len(sink')].name}

\* C16: no type name is passed to processType twice; the types whose
\* processed flag is set are exactly the types passed to processType; a
\* flag goes from false to true in the step that makes the type's
\* processType call, and never back.
C16_EachTypeOnce ==
  /\ [](/\ \A t \in EmittedTypes : Cardinality(EmittedAt(t)) = 1
        /\ processed = EmittedTypes)
  /\ [][FlagFollowsCall]_vars

\* C16 witness: a completed run for the diamond A requires C, B requires C
\* with A, B and the bootstrap type GLuint all selected: C, A, B and GLuint
\* were each emitted.
C16_Witness ==
  /\ status = "exit0"
  /\ TargetDefinition("A").requires = "C"
  /\ TargetDefinition("B").requires = "C"
  /\ {"A", "B", "GLuint"} \subseteq entity_sets["type"]
  /\ {"A", "B", "C", "GLuint"} \subseteq EmittedTypes
  /\ {"A", "B", "C", "GLuint"} \subseteq processed

\* ------------------------------------------------------------------------
\* Properties of processOperations' frame (Spec)
\* ------------------------------------------------------------------------
\* A block applies when it has no profile attribute or names the requested
\* profile.
BlockApplies(op) == op.profile = NoAttr \/ op.profile = options.profile

\* The references of the blocks of ops that apply, as <<block, reference>>
\* positions.
ApplicablePositions(ops) ==
  UNION {{<<oi, ri>> : ri \in 1..Len(ops[oi].refs)} :
           oi \in {o \in 1..Len(ops) : BlockApplies(ops[o])}}

Before(p, q) == p[1] < q[1] \/ (p[1] = q[1] /\ p[2] < q[2])

\* The first of the positions in S, in document order; the position past
\* the end of ops if S is empty.
FirstOf(S, ops) ==
  IF S = {} THEN <<Len(ops) + 1, 1>>
  ELSE CHOOSE p \in S : \A q \in S : q = p \/ Before(p, q)

PositionOf(c) == <<c.pos.oi, c.pos.ri>>

\* What a step of the program may do about blocks and profiles.
ProfileFiltered ==
  /\ entity_sets' # entity_sets =>
       /\ pc = "ops"
       /\ PositionOf(cur) \in ApplicablePositions(cur.ops)
  /\ (pc # "ops" /\ pc' = "ops") =>
       PositionOf(cur') = FirstOf(ApplicablePositions(cur'.ops), cur'.ops)
  /\ (pc = "ops" /\ pc' = "ops") =>
       /\ PositionOf(cur) \in ApplicablePositions(cur.ops)
       /\ last_ref' = [tag |-> cur.ops[cur.pos.oi].tag,
                       entity_type |-> cur.ops[cur.pos.oi].refs[cur.pos.ri].entity_type,
                       name |-> cur.ops[cur.pos.oi].refs[cur.pos.ri].name]
       /\ status' = "running" =>
            PositionOf(cur') =
              FirstOf({p \in ApplicablePositions(cur.ops) : Before(PositionOf(cur), p)},
                      cur.ops)
  /\ (pc = "ops" /\ pc' # "ops") =>
       PositionOf(cur) = <<Len(cur.ops) + 1, 1>>

\* C17: a require or remove block whose profile attribute differs from the
\* requested profile changes no selection set; the references of the blocks
\* without a profile attribute, or with the requested profile, are applied
\* one after the other in document order, none left out, before
\* processOperations returns.
C17_ProfileFiltering == [][ProfileFiltered]_vars

\* C17 witness: processOperations is about to return from a block list
\* whose remove block (no profile) was applied and whose require block for
\* another profile names type C: C is not selected.
C17_Witness ==
  /\ pc = "ops"
  /\ status = "running"
  /\ PositionOf(cur) = <<Len(cur.ops) + 1, 1>>
  /\ last_ref.tag = "remove"
  /\ \E oi \in 1..Len(cur.ops) :
       /\ ~BlockApplies(cur.ops[oi])
       /\ cur.ops[oi].tag = "require"
       /\ Ref("type", "C") \in Range(cur.ops[oi].refs)
  /\ "C" \notin entity_sets["type"]

\* A block whose profile attribute equals the requested profile has just
\* been applied.
C17_WitnessEqualProfile ==
  /\ pc = "ops"
  /\ last_ref.tag = "require"
  /\ last_ref.name = "cmdB"
  /\ "cmdB" \in entity_sets["command"]
  /\ \E oi \in 1..Len(cur.ops) :
       /\ cur.ops[oi].profile = options.profile
       /\ Ref("command", "cmdB") \in Range(cur.ops[oi].refs)

\* The step applies a reference of a remove block.
RemoveStep ==
  /\ pc = "ops"
  /\ status = "running"
  /\ PositionOf(cur) \in ApplicablePositions(cur.ops)
  /\ cur.ops[cur.pos.oi].tag = "remove"
  /\ entity_sets' # entity_sets \/ last_ref' # last_ref \/ cur' # cur

\* C18: a step that applies a remove directive for an entity erases that
\* one name from the selection set of the entity's kind and leaves the
\* other three sets as they were; for a command C that is the name C in
\* the command set, while the type and group sets keep what C's signature
\* had brought in.
C18_RemoveNotTransitive ==
  [][RemoveStep =>
       LET ref == cur.ops[cur.pos.oi].refs[cur.pos.ri]
       IN /\ ref.name # "" =>
               entity_sets'[ref.entity_type] = entity_sets[ref.entity_type] \ {ref.name}
          /\ \A t \in EntityTypes \ {ref.entity_type} :
               entity_sets'[t] = entity_sets[t]]_vars

\* C18 witness: cmdA (returns GLuint, takes an A of group G1) was required
\* and has just been removed: cmdA is not selected, GLuint and G1, which
\* only the inference from cmdA selected, still are.
C18_Witness ==
  /\ last_ref = [tag |-> "remove", entity_type |-> "command", name |-> "cmdA"]
  /\ "cmdA" \notin entity_sets["command"]
  /\ "GLuint" \in entity_sets["type"]
  /\ "G1" \in entity_sets["group"]
  /\ \A i \in 1..Len(applied) :
       applied[i].kind = "feature" =>
         \A d \in Range(root.features[applied[i].index].ops) :
           d.tag = "require" =>
             Ref("type", "GLuint") \notin Range(d.refs)

\* ------------------------------------------------------------------------
\* Properties of the requires recursion (SpecRequires)
\* ------------------------------------------------------------------------
TypeNames == {e.name : e \in Range(root.types)}

\* Type t lies on a cycle of requires edges of the definitions for the
\* requested api (a type that requires itself included).
OnCycle(t) == HasTargetDefinition(t) /\ t \in RequiresClosure(RequiresOf(t))
CycleTypes == {t \in TypeNames : OnCycle(t)}

\* output_type has an activation for a type on a cycle.
CycleVisited == \E i \in 1..Len(stack) : stack[i].name \in CycleTypes

\* The types the closure visits in a run that gets through the selected
\* types: the forced ones, the selected ones, and what they reach.
ClosureTypes == RequiresClosure(Foundational \cup entity_sets["type"])

Returned == status \in {"exit0", "exit1", "abort"}

\* C19: once output_type has an activation for a type on a cycle of
\* requires edges, no activation ever returns: the run stays inside
\* output_type (until the call stack is exhausted), no type on a cycle is
\* ever passed to processType or marked processed, no fatal error is
\* raised, the sink's end call is never made, and no run gets past the
\* selected-type loop while the closure of its selection holds a type on a
\* cycle.  With an acyclic requires graph the call stack is never exhausted
\* and every run comes to its end (end of generate() or a fatal error).
C19_CycleNeverReturns ==
  /\ [](/\ EmittedTypes \cap CycleTypes = {}
        /\ processed \cap CycleTypes = {})
  /\ [](CycleVisited =>
          /\ pc = "output_type"
          /\ status \in {"running", "segv"}
          /\ ~FatalRaised
          /\ ~Ended)
  /\ [][CycleVisited => CycleVisited']_vars
  /\ [](pc \in {"groups", "enums", "commands", "done"} =>
          ClosureTypes \cap CycleTypes = {})
  /\ [](status = "segv" => CycleVisited)
  /\ (CycleTypes = {}) ~> Returned

\* C19 witness: A requires B, B requires C, C requires A; the recursion
\* went round the cycle until the call stack was full, and none of the
\* three was emitted.
C19_Witness ==
  /\ TargetDefinition("A").requires = "B"
  /\ TargetDefinition("B").requires = "C"
  /\ TargetDefinition("C").requires = "A"
  /\ CycleTypes = {"A", "B", "C"}
  /\ Len(stack) = MaxDepth
  /\ \A i \in 1..Len(stack) : stack[i].name \in CycleTypes
  /\ status = "segv"
  /\ EmittedTypes = Foundational
  /\ sink # <<>>

\* A type that requires itself was visited.
C19_WitnessSelf ==
  /\ TargetDefinition("A").requires = "A"
  /\ CycleVisited
  /\ Len(stack) > 1

\* An acyclic graph with the longest chain (GLuint requires C requires A
\* requires B requires GLenum) was traversed to the end.
C19_WitnessAcyclic ==
  /\ CycleTypes = {}
  /\ TargetDefinition("GLuint").requires = "C"
  /\ TargetDefinition("C").requires = "A"
  /\ TargetDefinition("A").requires = "B"
  /\ TargetDefinition("B").requires = "GLenum"
  /\ status = "exit0"

====
